---- MODULE Spec2Model ----
(***************************************************************************)
(* XWaylandSurface (src/server/frontend_xwayland/xwayland_surface.cpp):    *)
(* the bridge between one X11 top-level window and a Mir scene surface.    *)
(*                                                                         *)
(* Two execution contexts (Threads) call the public operations.  Every     *)
(* operation is cut at the boundaries of its critical sections and of its  *)
(* calls into the shell, the scene surface and the XCB connection; pc[t]   *)
(* is the position of context t and loc[t] holds its local variables.      *)
(*                                                                         *)
(* Spec lets the two contexts overlap.  SpecSeq is the bridge driven by    *)
(* one call at a time (a call starts only when the one before it has       *)
(* returned) and allows a longer sequence of calls.  In both the window    *)
(* has none of the properties read_properties() asks for.  SpecRec lets    *)
(* the contexts overlap on a window that has them and records the          *)
(* arguments of the calls in the history; SpecProps drives the bridge of   *)
(* such a window by one call at a time.  SpecLive is Spec with each        *)
(* context going on with the operation it is in (weak fairness of its      *)
(* steps; no new call is ever required to arrive).                         *)
(***************************************************************************)
EXTENDS Integers, Sequences, FiniteSets, TLC

\* ---------------------------------------------------------------- bounds
NumSessions == 2        \* sessions a windowing surface can resolve to
MaxAttach   == 2        \* successful set_surface() calls (observers made)
MaxOps      == 3        \* operations started on the bridge
MaxRecOps   == 2        \* operations started when call arguments are recorded
MaxSeqOps   == 4        \* operations started when calls do not overlap
MaxPropOps  == 3        \* the same, for a window that has properties
HistCap     == 2        \* highest count the history keeps apart

\* ------------------------------------------------------------- constants
WITHDRAWN == 0
NORMAL    == 1
ICONIC    == 3
XCB_WINDOW_NONE == 0

REMOVE == 0
ADD    == 1
TOGGLE == 2

Threads    == {"x11", "wl"}
Sessions   == 1..NumSessions
SurfaceIds == 1..NumSessions
ObserverIds == 1..MaxAttach
Null       == 0
Free       == "free"    \* the mutex when no context holds it

MirWindowState ==
    {"unknown", "restored", "minimized", "maximized", "vertmaximized",
     "fullscreen", "horizmaximized", "hidden", "attached", "mir_window_states"}

\* the properties of the window that read_properties() asks for
PropertyAtoms == {"WM_CLASS", "WM_NAME", "_NET_WM_NAME", "WM_PROTOCOLS"}

\* atoms of the connection that the bridge compares against; "other" stands
\* for any atom the bridge does not know, XCB_ATOM_NONE (0) for an empty slot
XCB_ATOM_NONE == "XCB_ATOM_NONE"
Atoms == {"net_wm_state_hidden", "net_wm_state_maximized_horz",
          "net_wm_state_maximized_vert", "net_wm_state_fullscreen", "other"}
AtomSlots == Atoms \cup {XCB_ATOM_NONE}
Actions == {REMOVE, ADD, TOGGLE, 3}
WmStateRequests == {WITHDRAWN, NORMAL, 2, ICONIC}

\* the detail word of a _NET_WM_MOVERESIZE message: the move sentinel, the
\* eight resize sentinels, and two values move_resize() does not know
MOVE == "_NET_WM_MOVERESIZE_MOVE"
ResizeDetails ==
    {"_NET_WM_MOVERESIZE_SIZE_TOP", "_NET_WM_MOVERESIZE_SIZE_BOTTOM",
     "_NET_WM_MOVERESIZE_SIZE_LEFT", "_NET_WM_MOVERESIZE_SIZE_TOPLEFT",
     "_NET_WM_MOVERESIZE_SIZE_BOTTOMLEFT", "_NET_WM_MOVERESIZE_SIZE_RIGHT",
     "_NET_WM_MOVERESIZE_SIZE_TOPRIGHT", "_NET_WM_MOVERESIZE_SIZE_BOTTOMRIGHT"}
Details == {MOVE} \cup ResizeDetails
               \cup {"_NET_WM_MOVERESIZE_SIZE_KEYBOARD", "_NET_WM_MOVERESIZE_CANCEL"}

WindowState == [withdrawn : BOOLEAN, minimized : BOOLEAN,
                maximized : BOOLEAN, fullscreen : BOOLEAN]

AllFalse == [withdrawn |-> FALSE, minimized |-> FALSE,
             maximized |-> FALSE, fullscreen |-> FALSE]

VARIABLES
    window_state,            \* XWaylandSurface::window_state
    cached_mir_window_state, \* XWaylandSurface::cached_mir_window_state
    weak_scene_surface,      \* surface id or Null
    surface_observer,        \* observer id or Null (nullopt)
    weak_session,            \* session id or Null
    creation_params,         \* TRUE while the optional holds parameters
    props_dirty,             \* XWaylandSurface::props_dirty
    properties,              \* XWaylandSurface::properties
    mutex,                   \* the context inside a critical section, or Free
    liveSessions,            \* sessions some owner still holds
    surfaces,                \* the shell's scene surfaces, by id
    createCount,             \* shell->create_surface calls so far
    nAttach,                 \* observers made by successful set_surface calls
    wm_state_prop,           \* WM_STATE property of the window
    net_wm_state_prop,       \* _NET_WM_STATE property of the window
    fatal,                   \* fatal_error() was reached
    nOps,                    \* operations started so far
    sequential,              \* calls do not overlap in this run
    recording,               \* the history records call arguments in this run
    window_properties,       \* the properties the client ever sets on the window
    hist,                    \* history of the calls made so far
    pc, loc

bridge == <<window_state, cached_mir_window_state, weak_scene_surface,
            surface_observer, weak_session, creation_params, props_dirty,
            properties>>
env    == <<liveSessions, surfaces, createCount, nAttach>>
wire   == <<wm_state_prop, net_wm_state_prop>>
vars   == <<window_state, cached_mir_window_state, weak_scene_surface,
            surface_observer, weak_session, creation_params, props_dirty,
            properties, mutex, liveSessions, surfaces, createCount, nAttach,
            wm_state_prop, net_wm_state_prop, fatal, nOps, sequential,
            recording, window_properties,
            hist, pc, loc>>

\* the members of properties before the first read_properties(); nothing
\* reads deleteWindow before read_properties() has assigned it
DefaultProperties == [title |-> "", appId |-> "", deleteWindow |-> FALSE]

\* no creation parameters
NoParams == [type |-> "none"]

NoSurface == [held |-> FALSE, observer |-> Null, state |-> "unknown",
              session |-> Null, destroyed |-> FALSE]

DefaultLoc == [op |-> "none", nws |-> AllFalse, surf |-> Null, obs |-> Null,
               sess |-> Null, upd |-> FALSE, attachObs |-> Null,
               detail |-> "none", params |-> NoParams]

\* ------------------------------------------------- set_window_state, pure
\* WmStateOf with the two tests in the wrong order
WmStateOf_MinimizedFirst(s) ==
    IF s.minimized THEN ICONIC
    ELSE IF s.withdrawn THEN WITHDRAWN
    ELSE NORMAL

\* the WM_STATE code chosen at the top of set_window_state
WmStateOf(s) ==
    IF s.withdrawn THEN WITHDRAWN
    ELSE IF s.minimized THEN ICONIC
    ELSE NORMAL

\* the two-word WM_STATE record
WmStateProperties(s) == <<WmStateOf(s), XCB_WINDOW_NONE>>

\* a window without the _NET_WM_STATE property
Absent == [present |-> FALSE, atoms |-> <<>>]

\* NetWmStates without the branch that deletes the property
NetWmStates_IgnoresWithdrawn(s) ==
    [present |-> TRUE, atoms |->
           (IF s.minimized THEN <<"net_wm_state_hidden">> ELSE <<>>)
        \o (IF s.maximized THEN <<"net_wm_state_maximized_horz",
                                  "net_wm_state_maximized_vert">> ELSE <<>>)
        \o (IF s.fullscreen THEN <<"net_wm_state_fullscreen">> ELSE <<>>)]

\* NetWmStates with the fullscreen atom pushed first
NetWmStates_FullscreenFirst(s) ==
    IF s.withdrawn THEN Absent
    ELSE [present |-> TRUE, atoms |->
           (IF s.fullscreen THEN <<"net_wm_state_fullscreen">> ELSE <<>>)
        \o (IF s.minimized THEN <<"net_wm_state_hidden">> ELSE <<>>)
        \o (IF s.maximized THEN <<"net_wm_state_maximized_horz",
                                  "net_wm_state_maximized_vert">> ELSE <<>>)]

\* the _NET_WM_STATE value: absent after xcb_delete_property, else the
\* atom vector in push_back order
NetWmStates(s) ==
    IF s.withdrawn THEN Absent
    ELSE [present |-> TRUE, atoms |->
           (IF s.minimized THEN <<"net_wm_state_hidden">> ELSE <<>>)
        \o (IF s.maximized THEN <<"net_wm_state_maximized_horz",
                                  "net_wm_state_maximized_vert">> ELSE <<>>)
        \o (IF s.fullscreen THEN <<"net_wm_state_fullscreen">> ELSE <<>>)]

\* the MirWindowState computed by set_window_state: the first "if" is not
\* chained to the second, so its assignment is always overwritten
MirWindowStateOf(s) ==
    IF s.minimized THEN "minimized"
    ELSE IF s.fullscreen THEN "fullscreen"
    ELSE IF s.maximized THEN "maximized"
    ELSE "restored"

\* ---------------------------------------------------- map, unmap, pure
\* the state map() hands to set_window_state
MapState(s) == [s EXCEPT !.withdrawn = FALSE]

\* UnmapState that also drops the minimized flag
UnmapState_ClearsMinimized(s) == [s EXCEPT !.withdrawn = TRUE, !.minimized = FALSE]

\* the state unmap() hands to set_window_state
UnmapState(s) == [s EXCEPT !.withdrawn = TRUE]

\* ----------------------------------------------------- move_resize, pure
\* WmResizeEdgeToMirResizeEdge with west and east exchanged
WmResizeEdgeToMirResizeEdge_Mirrored(wm_resize_edge) ==
    CASE wm_resize_edge = "_NET_WM_MOVERESIZE_SIZE_TOP" -> "mir_resize_edge_north"
      [] wm_resize_edge = "_NET_WM_MOVERESIZE_SIZE_BOTTOM" -> "mir_resize_edge_south"
      [] wm_resize_edge = "_NET_WM_MOVERESIZE_SIZE_LEFT" -> "mir_resize_edge_east"
      [] wm_resize_edge = "_NET_WM_MOVERESIZE_SIZE_TOPLEFT" -> "mir_resize_edge_northeast"
      [] wm_resize_edge = "_NET_WM_MOVERESIZE_SIZE_BOTTOMLEFT" -> "mir_resize_edge_southeast"
      [] wm_resize_edge = "_NET_WM_MOVERESIZE_SIZE_RIGHT" -> "mir_resize_edge_west"
      [] wm_resize_edge = "_NET_WM_MOVERESIZE_SIZE_TOPRIGHT" -> "mir_resize_edge_northwest"
      [] wm_resize_edge = "_NET_WM_MOVERESIZE_SIZE_BOTTOMRIGHT" -> "mir_resize_edge_southwest"
      [] OTHER -> "nullopt"

\* wm_resize_edge_to_mir_resize_edge
WmResizeEdgeToMirResizeEdge(wm_resize_edge) ==
    CASE wm_resize_edge = "_NET_WM_MOVERESIZE_SIZE_TOP" -> "mir_resize_edge_north"
      [] wm_resize_edge = "_NET_WM_MOVERESIZE_SIZE_BOTTOM" -> "mir_resize_edge_south"
      [] wm_resize_edge = "_NET_WM_MOVERESIZE_SIZE_LEFT" -> "mir_resize_edge_west"
      [] wm_resize_edge = "_NET_WM_MOVERESIZE_SIZE_TOPLEFT" -> "mir_resize_edge_northwest"
      [] wm_resize_edge = "_NET_WM_MOVERESIZE_SIZE_BOTTOMLEFT" -> "mir_resize_edge_southwest"
      [] wm_resize_edge = "_NET_WM_MOVERESIZE_SIZE_RIGHT" -> "mir_resize_edge_east"
      [] wm_resize_edge = "_NET_WM_MOVERESIZE_SIZE_TOPRIGHT" -> "mir_resize_edge_northeast"
      [] wm_resize_edge = "_NET_WM_MOVERESIZE_SIZE_BOTTOMRIGHT" -> "mir_resize_edge_southeast"
      [] OTHER -> "nullopt"

\* the request move_resize() makes of the shell for a detail it forwards
ShellRequest(detail) ==
    IF detail = MOVE THEN "request_move"
    ELSE WmResizeEdgeToMirResizeEdge(detail)

\* ------------------------------------------------ client messages, pure
\* FieldOf with _NET_WM_STATE_MAXIMIZED_VERT taken for the horizontal atom
FieldOf_VertIsMaximized(property) ==
    IF property = "net_wm_state_hidden" THEN "minimized"
    ELSE IF property \in {"net_wm_state_maximized_horz",
                          "net_wm_state_maximized_vert"} THEN "maximized"
    ELSE IF property = "net_wm_state_fullscreen" THEN "fullscreen"
    ELSE "nil"

\* the flag prop_ptr points at for an atom ("nil" is the local dummy)
FieldOf(property) ==
    IF property = "net_wm_state_hidden" THEN "minimized"
    ELSE IF property = "net_wm_state_maximized_horz" THEN "maximized"
    ELSE IF property = "net_wm_state_fullscreen" THEN "fullscreen"
    ELSE "nil"

\* ApplyProperty with TOGGLE setting the flag instead of inverting it
ApplyProperty_ToggleSets(s, action, property) ==
    IF property = XCB_ATOM_NONE THEN s
    ELSE LET field == FieldOf(property)
             new == IF action = REMOVE THEN FALSE
                    ELSE IF action = ADD THEN TRUE
                    ELSE IF action = TOGGLE THEN TRUE
                    ELSE IF field = "nil" THEN FALSE ELSE s[field]
         IN  IF field = "nil" THEN s ELSE [s EXCEPT ![field] = new]

\* one pass of the loop body of net_wm_state_client_message
ApplyProperty(s, action, property) ==
    IF property = XCB_ATOM_NONE THEN s
    ELSE LET field == FieldOf(property)
             old == IF field = "nil" THEN FALSE ELSE s[field]
             new == IF action = REMOVE THEN FALSE
                    ELSE IF action = ADD THEN TRUE
                    ELSE IF action = TOGGLE THEN ~old
                    ELSE old
         IN  IF field = "nil" THEN s ELSE [s EXCEPT ![field] = new]

\* the whole loop over properties[2]
NetWmStateMessage(s, action, p1, p2) ==
    ApplyProperty(ApplyProperty(s, action, p1), action, p2)

\* WmChangeState that takes every state but Normal for Iconic
WmChangeState_DefaultIconic(s, requested) ==
    IF requested = NORMAL THEN [s EXCEPT !.minimized = FALSE]
    ELSE [s EXCEPT !.minimized = TRUE]

\* the switch of wm_change_state_client_message
WmChangeState(s, requested) ==
    IF requested = NORMAL THEN [s EXCEPT !.minimized = FALSE]
    ELSE IF requested = ICONIC THEN [s EXCEPT !.minimized = TRUE]
    ELSE s

\* FromMirWindowState whose maximized cases leave the fullscreen flag alone
FromMirWindowState_KeepsFullscreen(s, new_state) ==
    IF new_state \in {"minimized", "hidden"}
        THEN [s EXCEPT !.minimized = TRUE]
    ELSE IF new_state = "fullscreen"
        THEN [s EXCEPT !.minimized = FALSE, !.fullscreen = TRUE]
    ELSE IF new_state \in {"maximized", "vertmaximized", "horizmaximized"}
        THEN [s EXCEPT !.minimized = FALSE, !.maximized = TRUE]
    ELSE IF new_state \in {"restored", "unknown", "attached"}
        THEN [s EXCEPT !.minimized = FALSE, !.maximized = FALSE, !.fullscreen = FALSE]
    ELSE s

\* the switch of scene_surface_state_set
FromMirWindowState(s, new_state) ==
    IF new_state \in {"minimized", "hidden"}
        THEN [s EXCEPT !.minimized = TRUE]
    ELSE IF new_state = "fullscreen"
        THEN [s EXCEPT !.minimized = FALSE, !.fullscreen = TRUE]
    ELSE IF new_state \in {"maximized", "vertmaximized", "horizmaximized"}
        THEN [s EXCEPT !.minimized = FALSE, !.maximized = TRUE, !.fullscreen = FALSE]
    ELSE IF new_state \in {"restored", "unknown", "attached"}
        THEN [s EXCEPT !.minimized = FALSE, !.maximized = FALSE, !.fullscreen = FALSE]
    ELSE s

\* EarlyReturn that never finds the attribute unchanged
EarlyReturn_Never(new_state, cached) == FALSE

\* the test at the top of scene_surface_state_set
EarlyReturn(new_state, cached) == new_state = cached

\* ---------------------------------------------------- shared_ptr / weak_ptr
\* a scene surface lives while the shell or a local shared_ptr holds it
SurfaceAlive(id) ==
    /\ id # Null
    /\ \/ surfaces[id].held
       \/ \E t \in Threads : loc[t].surf = id

\* weak_scene_surface.lock()
LockSurface(w) == IF SurfaceAlive(w) THEN w ELSE Null

\* scene_surface(): what the accessor reports, read under the mutex
SceneSurface == LockSurface(weak_scene_surface)

\* weak_session.lock()
LockSession(w) == IF w \in liveSessions THEN w ELSE Null

\* get_session(wl_surface->resource): the session the windowing surface
\* belongs to, or none when no session can be resolved from it; the bridge
\* cannot tell one live session from another, so the first stands for all
GetSession ==
    {s \in liveSessions : \A other \in liveSessions : s <= other} \cup {Null}

\* holders of observer o other than the local of context t that was just reset
ObserverHeldElsewhere(o, t) ==
    \/ surface_observer = o
    \/ \E id \in SurfaceIds : SurfaceAlive(id) /\ surfaces[id].observer = o
    \/ \E u \in Threads \ {t} : loc[u].obs = o \/ loc[u].attachObs = o

Goto(t, p, l) ==
    /\ pc'  = [pc  EXCEPT ![t] = p]
    /\ loc' = [loc EXCEPT ![t] = l]

Return(t) == Goto(t, "idle", DefaultLoc)

Idle(t) == pc[t] = "idle" /\ ~fatal

\* the number of operations a run may start
Budget == IF recording THEN MaxRecOps
          ELSE IF ~sequential THEN MaxOps
          ELSE IF window_properties = {} THEN MaxSeqOps ELSE MaxPropOps

\* context t is called
Call(t) ==
    /\ Idle(t)
    /\ sequential => \A u \in Threads : pc[u] = "idle"
    /\ nOps < Budget
    /\ nOps' = nOps + 1
    /\ UNCHANGED <<sequential, recording, window_properties>>

\* context t starts an operation whose first step is a whole critical
\* section (std::lock_guard from construction to the end of its scope)
Begin(t) == Call(t) /\ mutex = Free /\ UNCHANGED mutex

\* context t takes the step at position p of the operation it is in,
\* outside any critical section
At(t, p) == pc[t] = p /\ ~fatal /\ UNCHANGED <<nOps, sequential, recording, window_properties, mutex>>

\* context t takes the step at position p, a whole critical section
AtLocked(t, p) == At(t, p) /\ mutex = Free

\* an operation that returns (or throws) without any effect
NoEffect == UNCHANGED <<bridge, env, wire, fatal, pc, loc>>

\* --------------------------------------------------------------- history
\* hist records what has been called, for the properties below:
\*   closing         a close() is running and nothing else has run since
\*                   it started
\*   closesInRow     close() calls that have run one after the other with
\*                   nothing else run meanwhile, in between or since
\*   foldSlots       the same fold, one application per atom slot
\*   foldOK, fold    only net_wm_state Add/Remove/Toggle messages have been
\*                   sent so far, and the fold of section 4.1 over them
\*   sssCalls/Mods   scene_surface_state_set(fullscreen) calls in a row on a
\*                   bridge with a scene surface, and the modify_surface
\*                   calls made during them
\*   attBuffer       whether the last successful set_surface saw a buffer
\*   commitsStarted, commitsDone   wl_surface_committed() calls since then,
\*                   (all counts stop at HistCap)
\*   createdAtAttach createCount when that set_surface ran
\*   deferOK         that set_surface was the first on the bridge, saw no
\*                   buffer and resolved a session, and neither close() nor
\*                   the loss of the session came before the scene surface
\*                   was requested
\*   immOK           that set_surface was the first on the bridge, saw a
\*                   buffer and resolved a session, and neither close() nor
\*                   the loss of the session came before the scene surface
\*                   was requested
\*   last            what the step just taken was, when it was one of:
\*                   "sss_same"     scene_surface_state_set(attr) called
\*                                  with attr equal to the cached attribute
\*                   "commit_noop"  wl_surface_committed() called and
\*                                  returned from the gate
\*                   "rp_clean"     read_properties() called with
\*                                  props_dirty clear
\*                   "mr_unknown"   move_resize(detail) called with a
\*                                  detail that is no sentinel
\*                   "mr_nosurface" move_resize(sentinel) called on a
\*                                  bridge without a live scene surface
\*   request         the request the shell received from move_resize() in
\*                   the step just taken
\*   arg             in runs that record them, the arguments of the call
\*                   started by the step just taken
\*   created         the parameters the shell's create_surface received in
\*                   the step just taken
\*   configure       the values xcb_configure_window was given in the step
\*                   just taken
\*   reads, dirties  read_properties() calls that issued reads, and
\*                   dirty_properties() calls
\*   wrote           for each member of properties the number of the
\*                   read_properties() call that assigned it last (0: none)
\* and, in runs whose calls do not overlap, the progress of two scenarios:
\*   e2e             1  a _NET_WM_STATE Add fullscreen message is being
\*                      handled, sent to a bridge with a live scene surface
\*                      and an all-false WindowState
\*                   2  it has returned        3  close() called next, running
\*                   4  that close() returned  5  close() called again and
\*                      returned at once       6  called again, still running
\*   e2eModify       the attribute modify_surface was given during 1
\*   e2eClose        what close() has called during 3
\*   um              1  unmap() running        2  it has returned
\*                   3  map() called next, running   4  it has returned
\*   umBefore, umWire   the WindowState and the two properties of the
\*                   window when that unmap() was called
NoArg == [op |-> "none"]

\*   sent            the request the step just taken sent on the legacy
\*                   connection, other than a write of the two state
\*                   properties
NoRequest == [req |-> "none"]

\*   early           a state message of the client was handled after a
\*                   windowing surface was attached and before the scene
\*                   surface was created, with no other call in progress,
\*                   and neither close() nor the shell's own state change
\*                   has been called since

\*   serial          while a map() or unmap() and a scene_surface_state_set
\*                   that started during it are the last operations
\*                   started: the WindowStates that running the two one
\*                   after the other, in either order, ends in

InitHist(s) ==
    [closing |-> FALSE, closesInRow |-> 0, foldOK |-> TRUE, fold |-> s, foldSlots |-> s,
     sssCalls |-> 0, sssMods |-> 0, attBuffer |-> "none",
     commitsStarted |-> 0, commitsDone |-> 0, createdAtAttach |-> 0,
     deferOK |-> FALSE, immOK |-> FALSE, last |-> "none", request |-> "none", arg |-> NoArg,
     created |-> NoParams, configure |-> <<>>, sent |-> NoRequest, serial |-> {}, early |-> FALSE,
     reads |-> 0, dirties |-> 0,
     wrote |-> [title |-> 0, appId |-> 0, deleteWindow |-> 0],
     e2e |-> 0, e2eModify |-> "none", e2eClose |-> "none",
     um |-> 0, umBefore |-> AllFalse, umWire |-> << <<>>, Absent >>]

\* section 4.1, apply_legacy_state_message(action, target_properties):
\* the action is applied to each property of the target set
ApplyLegacyStateMessage(s, action, targets) ==
    [f \in DOMAIN s |->
        IF f \in targets
          THEN (IF action = ADD THEN TRUE
                ELSE IF action = REMOVE THEN FALSE
                ELSE ~s[f])
          ELSE s[f]]

\* the target set a message names
TargetsOf(p1, p2) == {FieldOf(p1), FieldOf(p2)} \ {"nil"}

UpTo(n) == IF n > HistCap THEN HistCap ELSE n

\* something other than the watched calls has run
Disturbed(h) ==
    [h EXCEPT !.closing = FALSE, !.closesInRow = 0, !.sssCalls = 0, !.sssMods = 0,
              !.last = "none", !.request = "none", !.arg = NoArg,
              !.created = NoParams, !.configure = <<>>, !.sent = NoRequest]

\* history after context t starts operation op (pc' is the position reached)
StartHist(t, op) ==
    LET returned == pc'[t] = "idle"
        e2e == IF sequential /\ op = "close" /\ hist.e2e = 2
                 THEN (IF returned THEN 4 ELSE 3)
               ELSE IF sequential /\ op = "close" /\ hist.e2e = 4
                 THEN (IF returned THEN 5 ELSE 6)
               ELSE 0
        um  == IF sequential /\ op = "unmap" THEN 1
               ELSE IF sequential /\ op = "map" /\ hist.um = 2 THEN 3
               ELSE 0
    IN  [Disturbed(hist) EXCEPT
            !.e2e = e2e,
            !.e2eModify = IF e2e = 0 THEN "none" ELSE @,
            !.e2eClose = IF e2e = 0 THEN "none" ELSE @,
            !.um = um,
            !.umBefore = IF um = 1 THEN window_state
                         ELSE IF um = 3 THEN @ ELSE AllFalse,
            !.umWire = IF um = 1 THEN <<wm_state_prop, net_wm_state_prop>>
                       ELSE IF um = 3 THEN @ ELSE << <<>>, Absent >>,
            !.closing = (op = "close" /\ ~returned),
            !.closesInRow = IF op = "close" /\ returned
                              THEN UpTo(hist.closesInRow + 1) ELSE 0,
            !.foldOK = FALSE,
            !.fold = AllFalse,
            !.foldSlots = AllFalse,
            !.commitsStarted = IF op = "wl_surface_committed"
                                 THEN UpTo(@ + 1) ELSE @,
            !.commitsDone = IF op = "wl_surface_committed" /\ returned
                              THEN UpTo(@ + 1) ELSE @,
            !.deferOK = @ /\ op # "close",
            !.immOK = @ /\ op # "close",
            !.serial = {},
            !.early = IF op \in {"net_wm_state", "wm_change_state"}
                        THEN \/ @
                             \/ /\ surface_observer # Null
                                /\ weak_scene_surface = Null
                                /\ createCount = 0
                                /\ \A u \in Threads : pc[u] = "idle"
                      ELSE IF \/ op \in {"close", "scene_surface_state_set",
                                         "set_surface"}
                              \/ /\ op = "wl_surface_committed"
                                 /\ \E u \in Threads : pc[u] # "idle"
                        THEN FALSE
                      ELSE @]

\* history after context t takes a step of the operation it is in
StepHist(t) ==
    LET returned == pc'[t] = "idle"
        watched  == t = "wl" /\ hist.sssCalls > 0
        h == IF watched
               THEN [hist EXCEPT !.closing = FALSE, !.closesInRow = 0,
                        !.last = "none", !.request = "none", !.arg = NoArg,
                        !.created = NoParams, !.configure = <<>>,
                        !.sent = NoRequest,
                        !.sssMods = IF pc[t] = "sws_modify" THEN @ + 1 ELSE @]
               ELSE Disturbed(hist)
    IN  [h EXCEPT
            !.e2e = IF @ \in {1, 3} /\ returned THEN @ + 1 ELSE @,
            !.e2eModify = IF hist.e2e = 1 /\ pc[t] = "sws_modify"
                            THEN MirWindowStateOf(loc[t].nws) ELSE @,
            !.e2eClose = IF hist.e2e = 3 /\ pc[t] = "close_remove"
                            THEN "removed"
                         ELSE IF hist.e2e = 3 /\ pc[t] = "close_destroy"
                            THEN (IF @ = "removed" THEN "removed, destroyed"
                                  ELSE "destroyed")
                         ELSE @,
            !.um = IF @ \in {1, 3} /\ returned THEN @ + 1 ELSE @,
            !.closing = (loc[t].op = "close" /\ hist.closing /\ ~returned),
            !.closesInRow = IF loc[t].op = "close" /\ hist.closing /\ returned
                              THEN 1 ELSE 0,
            !.commitsDone = IF loc[t].op = "wl_surface_committed" /\ returned
                              THEN UpTo(@ + 1) ELSE @]

\* ------------------------------------------------------------------ Init
\* The members' default initialisers are in xwayland_surface.h: the
\* withdrawn flag and the cached attribute are left open here.
Init ==
    /\ window_state \in {s \in WindowState :
            ~s.minimized /\ ~s.maximized /\ ~s.fullscreen}
    /\ cached_mir_window_state \in {"unknown", "restored"}
    /\ weak_scene_surface = Null
    /\ surface_observer = Null
    /\ weak_session = Null
    /\ creation_params = FALSE
    /\ props_dirty = TRUE
    /\ properties = DefaultProperties
    /\ mutex = Free
    /\ liveSessions = Sessions
    /\ surfaces = [id \in SurfaceIds |-> NoSurface]
    /\ createCount = 0
    /\ nAttach = 0
    /\ wm_state_prop = <<>>
    /\ net_wm_state_prop = Absent
    /\ fatal = FALSE
    /\ nOps = 0
    /\ sequential = FALSE
    /\ recording = FALSE
    /\ window_properties = {}
    /\ hist = InitHist(window_state)
    /\ pc  = [t \in Threads |-> "idle"]
    /\ loc = [t \in Threads |-> DefaultLoc]

\* ----------------------------------------------------- set_window_state
\* CallSetWindowState that goes to the critical section before the writes
CallSetWindowState_PushFirst(t, op, nws) ==
    Goto(t, "sws_lock", [DefaultLoc EXCEPT !.op = op, !.nws = nws])

\* entry into set_window_state(new_window_state) from operation op
CallSetWindowState(t, op, nws) ==
    Goto(t, "sws_wm_state", [DefaultLoc EXCEPT !.op = op, !.nws = nws])

\* connection->set_property<XCBType::WM_STATE>(window, wm_state, ...)
SetWmStateProperty(t) ==
    /\ At(t, "sws_wm_state")
    /\ wm_state_prop' = WmStateProperties(loc[t].nws)
    /\ Goto(t, "sws_net_wm_state", loc[t])
    /\ hist' = StepHist(t)
    /\ UNCHANGED <<bridge, env, net_wm_state_prop, fatal>>

\* xcb_delete_property(net_wm_state) or set_property<ATOM>(net_wm_state)
SetNetWmStateProperty(t) ==
    /\ At(t, "sws_net_wm_state")
    /\ net_wm_state_prop' = NetWmStates(loc[t].nws)
    /\ Goto(t, "sws_lock", loc[t])
    /\ hist' = StepHist(t)
    /\ UNCHANGED <<bridge, env, wm_state_prop, fatal>>

\* PushDecision without the comparison against the cached attribute
PushDecision_AlwaysPush(mir_window_state, cached, scene_surface) ==
    [cached |-> mir_window_state, surf |-> scene_surface]

\* PushDecision that caches the attribute only when there is a surface
PushDecision_CachesWithSurface(mir_window_state, cached, scene_surface) ==
    [cached |-> IF scene_surface # Null THEN mir_window_state ELSE cached,
     surf   |-> IF mir_window_state # cached THEN scene_surface ELSE Null]

\* what the critical section of set_window_state decides: the cached
\* attribute, and the surface to modify (Null when there is nothing to do)
PushDecision(mir_window_state, cached, scene_surface) ==
    [cached |-> mir_window_state,
     surf   |-> IF mir_window_state # cached THEN scene_surface ELSE Null]

\* the critical section of set_window_state
SetWindowStateLocked(t) ==
    /\ AtLocked(t, "sws_lock")
    /\ LET d == PushDecision(MirWindowStateOf(loc[t].nws),
                             cached_mir_window_state,
                             LockSurface(weak_scene_surface))
       IN  /\ window_state' = loc[t].nws
           /\ cached_mir_window_state' = d.cached
           /\ IF d.surf # Null
                THEN Goto(t, "sws_modify",
                          [loc[t] EXCEPT !.upd = TRUE, !.surf = d.surf])
                ELSE Return(t)
    /\ hist' = StepHist(t)
    /\ UNCHANGED <<weak_scene_surface, surface_observer, weak_session,
                   creation_params, props_dirty, properties, env, wire, fatal>>

\* shell->modify_surface(session, scene_surface, mods) with mods.state set
ModifySurface(t) ==
    /\ At(t, "sws_modify")
    /\ surfaces' = [surfaces EXCEPT ![loc[t].surf].state =
                        MirWindowStateOf(loc[t].nws)]
    /\ Return(t)
    /\ hist' = StepHist(t)
    /\ UNCHANGED <<bridge, liveSessions, createCount, nAttach, wire, fatal>>

\* ------------------------------------------------------------ map, unmap
Map(t) ==
    /\ Begin(t)
    /\ CallSetWindowState(t, "map", MapState(window_state))
    /\ hist' = StartHist(t, "map")
    /\ UNCHANGED <<bridge, env, wire, fatal>>

Unmap(t) ==
    /\ Begin(t)
    /\ CallSetWindowState(t, "unmap", UnmapState(window_state))
    /\ hist' = StartHist(t, "unmap")
    /\ UNCHANGED <<bridge, env, wire, fatal>>

\* ------------------------------------------------------- client messages
NetWmStateClientMessage(t) ==
    /\ Begin(t)
    /\ \E action \in Actions, p1 \in Atoms, p2 \in AtomSlots :
          /\ CallSetWindowState(t, "net_wm_state",
                                NetWmStateMessage(window_state, action, p1, p2))
          /\ LET ok == hist.foldOK /\ action \in {REMOVE, ADD, TOGGLE}
             IN  hist' = [StartHist(t, "net_wm_state") EXCEPT
                    !.e2e = IF /\ sequential
                               /\ action = ADD
                               /\ p1 = "net_wm_state_fullscreen"
                               /\ p2 = XCB_ATOM_NONE
                               /\ window_state = AllFalse
                               /\ LockSurface(weak_scene_surface) # Null
                              THEN 1 ELSE 0,
                    !.arg = IF recording
                              THEN [op |-> "net_wm_state", action |-> action,
                                    p1 |-> p1, p2 |-> p2]
                              ELSE NoArg,
                    !.foldOK = ok,
                    !.fold = IF ok
                        THEN ApplyLegacyStateMessage(hist.fold, action,
                                                     TargetsOf(p1, p2))
                        ELSE AllFalse,
                    !.foldSlots = IF ok
                        THEN ApplyLegacyStateMessage(
                                 ApplyLegacyStateMessage(hist.foldSlots, action,
                                     TargetsOf(p1, XCB_ATOM_NONE)),
                                 action, TargetsOf(p2, XCB_ATOM_NONE))
                        ELSE AllFalse]
    /\ UNCHANGED <<bridge, env, wire, fatal>>

WmChangeStateClientMessage(t) ==
    /\ Begin(t)
    /\ \E requested \in WmStateRequests :
          /\ CallSetWindowState(t, "wm_change_state",
                                WmChangeState(window_state, requested))
          /\ hist' = [StartHist(t, "wm_change_state") EXCEPT
                         !.arg = IF recording
                                   THEN [op |-> "wm_change_state",
                                         requested |-> requested]
                                   ELSE NoArg]
    /\ UNCHANGED <<bridge, env, wire, fatal>>

\* ------------------------------------------------ scene_surface_state_set
\* called through the observer, so only while a scene surface that the
\* shell has not destroyed has one
ObserverRegistered ==
    \E id \in SurfaceIds :
        /\ SurfaceAlive(id)
        /\ ~surfaces[id].destroyed
        /\ surfaces[id].observer # Null

\* the results of the map() or unmap() in progress on the X11 context and
\* of scene_surface_state_set(new_state), run one after the other from
\* the state both have read
SerialResults(new_state) ==
    LET x == loc["x11"]
        F(s) == IF x.op = "map" THEN MapState(s) ELSE UnmapState(s)
        G(s) == FromMirWindowState(s, new_state)
    IN  IF /\ pc["x11"] \in {"sws_wm_state", "sws_net_wm_state", "sws_lock"}
           /\ x.op \in {"map", "unmap"}
           /\ x.nws = F(window_state)
          THEN {F(G(window_state)),
                IF EarlyReturn(new_state, MirWindowStateOf(F(window_state)))
                  THEN F(window_state)
                  ELSE G(F(window_state))}
          ELSE {}

SceneSurfaceStateSet(t) ==
    /\ Begin(t)
    /\ ObserverRegistered
    /\ \E new_state \in MirWindowState :
          /\ IF EarlyReturn(new_state, cached_mir_window_state)
               THEN NoEffect
               ELSE /\ cached_mir_window_state' = new_state
                    /\ CallSetWindowState(t, "scene_surface_state_set",
                           FromMirWindowState(window_state, new_state))
                    /\ UNCHANGED <<window_state, weak_scene_surface,
                                   surface_observer, weak_session,
                                   creation_params, props_dirty, properties, env, wire,
                                   fatal>>
          /\ LET watch == /\ new_state = "fullscreen"
                          /\ \/ hist.sssCalls > 0
                             \/ LockSurface(weak_scene_surface) # Null
             IN  hist' = [StartHist(t, "scene_surface_state_set") EXCEPT
                    !.last = IF new_state = cached_mir_window_state
                               THEN "sss_same" ELSE "none",
                    !.sssCalls = IF watch THEN hist.sssCalls + 1 ELSE 0,
                    !.sssMods  = IF watch THEN hist.sssMods ELSE 0,
                    !.serial = IF EarlyReturn(new_state, cached_mir_window_state)
                                 THEN {} ELSE SerialResults(new_state)]

\* ------------------------------------------------- scene_surface_resized
\* sizes the shell gives a scene surface
Sizes == [width : {640, 800}, height : {480}]

\* ConfigureValues with the two values in the other order
ConfigureValues_HeightFirst(new_size) == <<new_size.height, new_size.width>>

\* values[] of scene_surface_resized
ConfigureValues(new_size) == <<new_size.width, new_size.height>>

\* called through the observer; the mutex is not touched
SceneSurfaceResized(t) ==
    /\ Call(t)
    /\ UNCHANGED mutex
    /\ ObserverRegistered
    /\ NoEffect
    /\ \E new_size \in Sizes :
          hist' = [StartHist(t, "scene_surface_resized") EXCEPT
                      !.configure = ConfigureValues(new_size),
                      !.arg = IF recording
                                THEN [op |-> "scene_surface_resized",
                                      new_size |-> new_size]
                                ELSE NoArg]

\* ------------------------------------------ scene_surface_close_requested
\* SceneSurfaceCloseRequested that also lets go of the scene surface and
\* of the observer, as close() does
SceneSurfaceCloseRequested_Closes(t) ==
    /\ Call(t)
    /\ UNCHANGED mutex
    /\ ObserverRegistered
    /\ weak_scene_surface' = Null
    /\ surface_observer' = Null
    /\ UNCHANGED <<window_state, cached_mir_window_state, weak_session,
                   creation_params, props_dirty, properties, env, wire, fatal,
                   pc, loc>>
    /\ hist' = [StartHist(t, "scene_surface_close_requested") EXCEPT
                   !.last = "scene_surface_close_requested",
                   !.sent = [req |-> "destroy_window"]]

\* called through the observer: xcb_destroy_window(*connection, window)
\* and a flush; the mutex is not touched
SceneSurfaceCloseRequested(t) ==
    /\ Call(t)
    /\ UNCHANGED mutex
    /\ ObserverRegistered
    /\ NoEffect
    /\ hist' = [StartHist(t, "scene_surface_close_requested") EXCEPT
                   !.last = "scene_surface_close_requested",
                   !.sent = [req |-> "destroy_window"]]

\* ----------------------------------------------------------- set_workspace
\* the workspaces a caller names: a negative one, zero, a positive one
Workspaces == {-1, 0, 1}

\* WorkspaceRequest that never deletes the property
WorkspaceRequest_AlwaysSets(workspace) ==
    [req |-> "set_property", property |-> "net_wm_desktop",
     value |-> workspace]

\* the request set_workspace(workspace) sends: set_property<CARDINAL32>
\* with the value cast to uint32_t (the cast keeps an int that is not
\* negative as it is), or delete_property
WorkspaceRequest(workspace) ==
    IF workspace >= 0
      THEN [req |-> "set_property", property |-> "net_wm_desktop",
            value |-> workspace]
      ELSE [req |-> "delete_property", property |-> "net_wm_desktop"]

\* set_workspace(workspace); the mutex is not touched
SetWorkspace(t) ==
    /\ Call(t)
    /\ UNCHANGED mutex
    /\ NoEffect
    /\ \E workspace \in Workspaces :
          hist' = [StartHist(t, "set_workspace") EXCEPT
                      !.last = "set_workspace",
                      !.sent = WorkspaceRequest(workspace),
                      !.arg = IF recording
                                THEN [op |-> "set_workspace",
                                      workspace |-> workspace]
                                ELSE NoArg]

\* ---------------------------------------- create_scene_surface_if_needed
\* the size of the window in the create notify event, kept in init.size
InitSize == "init.size"

\* a member of the creation parameters that set_surface left unset
Unset == "unset"

\* CreationParams that takes the title and the application id as they are
CreationParams_AlwaysOverrides(p) ==
    [type |-> "mir_window_type_freestyle",
     name |-> p.title,
     application_id |-> p.appId,
     size |-> InitSize,
     server_side_decorated |-> TRUE]

\* the parameters create_scene_surface_if_needed hands to the shell, for
\* the cached properties p
CreationParams(p) ==
    [type |-> "mir_window_type_freestyle",
     name |-> IF p.title # "" THEN p.title ELSE Unset,
     application_id |-> IF p.appId # "" THEN p.appId ELSE Unset,
     size |-> InitSize,
     server_side_decorated |-> TRUE]

\* CreateGate with the test of the session inverted
CreateGate_NegatedSession(t, l) ==
    LET session == LockSession(weak_session)
    IN  IF \/ LockSurface(weak_scene_surface) # Null
           \/ ~creation_params
           \/ surface_observer = Null
           \/ session # Null
          THEN /\ Return(t)
               /\ UNCHANGED creation_params
          ELSE /\ creation_params' = FALSE
               /\ Goto(t, "csn_create",
                       [l EXCEPT !.obs = surface_observer, !.sess = session,
                                 !.params = CreationParams(properties)])

\* CreateGate without the test of weak_scene_surface
CreateGate_IgnoresSurface(t, l) ==
    LET session == LockSession(weak_session)
    IN  IF \/ ~creation_params
           \/ surface_observer = Null
           \/ session = Null
          THEN /\ Return(t)
               /\ UNCHANGED creation_params
          ELSE /\ creation_params' = FALSE
               /\ Goto(t, "csn_create",
                       [l EXCEPT !.obs = surface_observer, !.sess = session,
                                 !.params = CreationParams(properties)])

\* the first critical section: the gate, and the move out of creation_params
CreateGate(t, l) ==
    LET session == LockSession(weak_session)
    IN  IF \/ LockSurface(weak_scene_surface) # Null
           \/ ~creation_params
           \/ surface_observer = Null
           \/ session = Null
          THEN /\ Return(t)
               /\ UNCHANGED creation_params
          ELSE /\ creation_params' = FALSE
               /\ Goto(t, "csn_create",
                       [l EXCEPT !.obs = surface_observer, !.sess = session,
                                 !.params = CreationParams(properties)])

\* shell->create_surface(session, params, observer)
CreateSurface(t) ==
    /\ At(t, "csn_create")
    /\ LET id == createCount + 1
       IN  /\ createCount' = id
           /\ surfaces' = [surfaces EXCEPT ![id] =
                  [held |-> TRUE, observer |-> loc[t].obs, state |-> "restored",
                   session |-> loc[t].sess, destroyed |-> FALSE]]
           /\ Goto(t, "csn_store",
                   [loc[t] EXCEPT !.surf = id, !.params = NoParams])
    /\ hist' = [StepHist(t) EXCEPT !.created = loc[t].params]
    /\ UNCHANGED <<bridge, liveSessions, nAttach, wire, fatal>>

\* the second critical section: weak_scene_surface = surface
StoreSceneSurface(t) ==
    /\ AtLocked(t, "csn_store")
    /\ weak_scene_surface' = loc[t].surf
    /\ Return(t)
    /\ hist' = StepHist(t)
    /\ UNCHANGED <<window_state, cached_mir_window_state, surface_observer,
                   weak_session, creation_params, props_dirty, properties, env, wire,
                   fatal>>

WlSurfaceCommitted(t) ==
    /\ Begin(t)
    /\ CreateGate(t, [DefaultLoc EXCEPT !.op = "wl_surface_committed"])
    /\ hist' = [StartHist(t, "wl_surface_committed") EXCEPT
                   !.last = IF pc'[t] = "idle" THEN "commit_noop" ELSE "none"]
    /\ UNCHANGED <<window_state, cached_mir_window_state, weak_scene_surface,
                   surface_observer, weak_session, props_dirty, properties, env, wire,
                   fatal>>

\* ----------------------------------------------------------- set_surface
\* wl_surface is given by what the bridge reads from it: whether a buffer
\* has been committed and the session get_session() resolves
SetSurface(t) ==
    /\ Begin(t)
    /\ \E buffer \in BOOLEAN, session \in GetSession :
          IF surface_observer # Null \/ LockSession(weak_session) # Null
            THEN /\ NoEffect          \* std::runtime_error
                 /\ hist' = StartHist(t, "set_surface")
            ELSE /\ nAttach < MaxAttach
                 /\ nAttach' = nAttach + 1
                 /\ surface_observer' = nAttach + 1
                 /\ weak_session' = session
                 /\ creation_params' = TRUE
                 /\ IF buffer
                      THEN Goto(t, "csn_lock",
                                [DefaultLoc EXCEPT !.op = "set_surface",
                                                   !.attachObs = nAttach + 1])
                      ELSE Return(t)
                 /\ hist' = [StartHist(t, "set_surface") EXCEPT
                        !.attBuffer = IF buffer THEN "yes" ELSE "no",
                        !.commitsStarted = 0,
                        !.commitsDone = 0,
                        !.createdAtAttach = createCount,
                        !.deferOK = ~buffer /\ session # Null /\ nAttach = 0,
                        !.immOK = buffer /\ session # Null /\ nAttach = 0]
                 /\ UNCHANGED <<window_state, cached_mir_window_state,
                                weak_scene_surface, props_dirty, properties, liveSessions,
                                surfaces, createCount, wire, fatal>>

\* set_surface that returns without create_scene_surface_if_needed()
SetSurfaceCreate_Skipped(t) ==
    /\ AtLocked(t, "csn_lock")
    /\ Return(t)
    /\ hist' = StepHist(t)
    /\ UNCHANGED <<bridge, env, wire, fatal>>

\* create_scene_surface_if_needed() called from set_surface
SetSurfaceCreate(t) ==
    /\ AtLocked(t, "csn_lock")
    /\ CreateGate(t, loc[t])
    /\ hist' = StepHist(t)
    /\ UNCHANGED <<window_state, cached_mir_window_state, weak_scene_surface,
                   surface_observer, weak_session, props_dirty, properties, env, wire,
                   fatal>>

\* ----------------------------------------------------------------- close
\* CloseNext without the call of remove_observer
CloseNext_SkipsRemove(t, l) ==
    IF l.surf # Null THEN Goto(t, "close_destroy", l)
    ELSE IF l.obs # Null THEN Goto(t, "close_check", l)
    ELSE Return(t)

\* where close() continues with locals scene_surface and observer
CloseNext(t, l) ==
    IF l.surf # Null /\ l.obs # Null THEN Goto(t, "close_remove", l)
    ELSE IF l.surf # Null THEN Goto(t, "close_destroy", l)
    ELSE IF l.obs # Null THEN Goto(t, "close_check", l)
    ELSE Return(t)

\* Close without weak_scene_surface.reset()
Close_KeepsSurface(t) ==
    /\ Begin(t)
    /\ surface_observer' = Null
    /\ CloseNext(t, [DefaultLoc EXCEPT !.op = "close",
                        !.surf = LockSurface(weak_scene_surface),
                        !.obs = surface_observer])
    /\ hist' = StartHist(t, "close")
    /\ UNCHANGED <<window_state, cached_mir_window_state, weak_scene_surface,
                   weak_session, creation_params, props_dirty, properties, env, wire,
                   fatal>>

\* the critical section of close()
\* Close whose critical section takes the observer handle without clearing
\* the member
Close_KeepsObserver(t) ==
    /\ Begin(t)
    /\ weak_scene_surface' = Null
    /\ CloseNext(t, [DefaultLoc EXCEPT !.op = "close",
                        !.surf = LockSurface(weak_scene_surface),
                        !.obs = surface_observer])
    /\ hist' = StartHist(t, "close")
    /\ UNCHANGED <<window_state, cached_mir_window_state, surface_observer,
                   weak_session, creation_params, props_dirty, properties,
                   env, wire, fatal>>

Close(t) ==
    /\ Begin(t)
    /\ weak_scene_surface' = Null
    /\ surface_observer' = Null
    /\ CloseNext(t, [DefaultLoc EXCEPT !.op = "close",
                        !.surf = LockSurface(weak_scene_surface),
                        !.obs = surface_observer])
    /\ hist' = StartHist(t, "close")
    /\ UNCHANGED <<window_state, cached_mir_window_state, weak_session,
                   creation_params, props_dirty, properties, env, wire, fatal>>

\* scene_surface->remove_observer(observer)
RemoveObserver(t) ==
    /\ At(t, "close_remove")
    /\ surfaces' = [surfaces EXCEPT ![loc[t].surf].observer =
            IF @ = loc[t].obs THEN Null ELSE @]
    /\ Goto(t, "close_destroy", loc[t])
    /\ hist' = StepHist(t)
    /\ UNCHANGED <<bridge, liveSessions, createCount, nAttach, wire, fatal>>

\* shell->destroy_surface(session, scene_surface); scene_surface.reset()
\* "Someone may still be holding on to the surface somewhere"
DestroySurface(t) ==
    /\ At(t, "close_destroy")
    /\ \E still_held \in BOOLEAN :
          surfaces' = [surfaces EXCEPT ![loc[t].surf].held = still_held,
                                       ![loc[t].surf].destroyed = TRUE]
    /\ LET l == [loc[t] EXCEPT !.surf = Null]
       IN  IF l.obs # Null THEN Goto(t, "close_check", l) ELSE Return(t)
    /\ hist' = StepHist(t)
    /\ UNCHANGED <<bridge, liveSessions, createCount, nAttach, wire, fatal>>

\* observer.reset(); fatal_error() if weak_observer.lock() still succeeds
CheckObserverDead(t) ==
    /\ At(t, "close_check")
    /\ fatal' = ObserverHeldElsewhere(loc[t].obs, t)
    /\ Return(t)
    /\ hist' = StepHist(t)
    /\ UNCHANGED <<bridge, env, wire>>

\* ------------------------------------- dirty_properties, read_properties
DirtyProperties(t) ==
    /\ Begin(t)
    /\ props_dirty' = TRUE
    /\ Return(t)
    /\ hist' = [StartHist(t, "dirty_properties") EXCEPT !.dirties = @ + 1]
    /\ UNCHANGED <<window_state, cached_mir_window_state, weak_scene_surface,
                   surface_observer, weak_session, creation_params, properties,
                   env, wire, fatal>>

\* ReadProperties without the clearing of props_dirty
ReadProperties_KeepsDirty(t) ==
    /\ Call(t)
    /\ mutex = Free
    /\ IF ~props_dirty
         THEN /\ NoEffect
              /\ UNCHANGED mutex
              /\ hist' = [StartHist(t, "read_properties") EXCEPT
                              !.last = "rp_clean"]
         ELSE /\ mutex' = t
              /\ Goto(t, "rp_read", [DefaultLoc EXCEPT !.op = "read_properties"])
              /\ hist' = StartHist(t, "read_properties")
              /\ UNCHANGED <<bridge, env, wire, fatal>>

\* read_properties() up to the test of props_dirty and the clearing of it;
\* the lock_guard lives to the end of the function
ReadProperties(t) ==
    /\ Call(t)
    /\ mutex = Free
    /\ IF ~props_dirty
         THEN /\ NoEffect
              /\ UNCHANGED mutex
              /\ hist' = [StartHist(t, "read_properties") EXCEPT
                              !.last = "rp_clean"]
         ELSE /\ props_dirty' = FALSE
              /\ mutex' = t
              /\ Goto(t, "rp_read", [DefaultLoc EXCEPT !.op = "read_properties"])
              /\ hist' = StartHist(t, "read_properties")
              /\ UNCHANGED <<window_state, cached_mir_window_state,
                             weak_scene_surface, surface_observer, weak_session,
                             creation_params, properties, env, wire, fatal>>

\* what a read of a property of the window brings back: its value, or
\* nothing when the window has no such property just then
NoReply == [present |-> FALSE]
Reply(value) == [present |-> TRUE, value |-> value]
Replies(atom, values) ==
    {NoReply} \cup (IF atom \in window_properties
                      THEN {Reply(v) : v \in values} ELSE {})
WmClassReplies     == Replies("WM_CLASS", {"class"})
WmNameReplies      == Replies("WM_NAME", {"name"})
NetWmNameReplies   == Replies("_NET_WM_NAME", {"net name"})
WmProtocolsReplies == Replies("WM_PROTOCOLS",
                              {{"wm_take_focus"},
                               {"wm_take_focus", "wm_delete_window"}})

\* connection->read_property(window, atom, callback), then the action it
\* returns: the callback is run on the value read, and not at all when the
\* property is absent; given by what a callback that assigns its argument
\* leaves in a member that held `member`
ReadProperty(reply, member) ==
    IF reply.present THEN reply.value ELSE member

\* properties after the reads of one read_properties() call
RefreshedProperties(p, wm_class, wm_name, net_wm_name, wm_protocols) ==
    [appId |-> ReadProperty(wm_class, p.appId),
     title |-> ReadProperty(net_wm_name, ReadProperty(wm_name, p.title)),
     deleteWindow |-> "wm_delete_window" \in ReadProperty(wm_protocols, {})]

\* the four connection->read_property() calls and the actions they return,
\* then the end of the function
ReadPropertyRequests(t) ==
    /\ pc[t] = "rp_read" /\ ~fatal
    /\ mutex = t
    /\ mutex' = Free
    /\ \E wm_class \in WmClassReplies, wm_name \in WmNameReplies,
          net_wm_name \in NetWmNameReplies, wm_protocols \in WmProtocolsReplies :
          /\ properties' = RefreshedProperties(properties, wm_class, wm_name,
                                               net_wm_name, wm_protocols)
          /\ hist' = [StepHist(t) EXCEPT
                !.reads = @ + 1,
                !.wrote = [title |-> IF wm_name.present \/ net_wm_name.present
                                       THEN hist.reads + 1 ELSE @.title,
                           appId |-> IF wm_class.present
                                       THEN hist.reads + 1 ELSE @.appId,
                           deleteWindow |-> hist.reads + 1],
                !.arg = IF recording
                          THEN [op |-> "read_properties",
                                wm_class |-> wm_class, wm_name |-> wm_name,
                                net_wm_name |-> net_wm_name,
                                wm_protocols |-> wm_protocols]
                          ELSE NoArg]
    /\ Return(t)
    /\ UNCHANGED <<window_state, cached_mir_window_state, weak_scene_surface,
                   surface_observer, weak_session, creation_params, props_dirty,
                   env, wire, fatal, nOps, sequential, recording, window_properties>>

\* ----------------------------------------------------------- move_resize
\* move_resize(detail) up to the call into the shell
MoveResize(t) ==
    /\ Call(t)
    /\ \E detail \in Details :
          IF detail = MOVE \/ WmResizeEdgeToMirResizeEdge(detail) # "nullopt"
            THEN /\ mutex = Free
                 /\ LET scene_surface == LockSurface(weak_scene_surface)
                    IN  IF scene_surface # Null
                          THEN /\ mutex' = t
                               /\ Goto(t, "mr_request",
                                       [DefaultLoc EXCEPT !.op = "move_resize",
                                            !.detail = detail,
                                            !.surf = scene_surface])
                               /\ hist' = StartHist(t, "move_resize")
                               /\ UNCHANGED <<bridge, env, wire, fatal>>
                          ELSE /\ NoEffect
                               /\ UNCHANGED mutex
                               /\ hist' = [StartHist(t, "move_resize") EXCEPT
                                               !.last = "mr_nosurface"]
            ELSE /\ NoEffect     \* mir::log_warning
                 /\ UNCHANGED mutex
                 /\ hist' = [StartHist(t, "move_resize") EXCEPT
                                 !.last = "mr_unknown"]

\* shell->request_move() or shell->request_resize(), inside the lock_guard's
\* scope, then the end of that scope
RequestMoveResize(t) ==
    /\ pc[t] = "mr_request" /\ ~fatal
    /\ mutex = t
    /\ mutex' = Free
    /\ Return(t)
    /\ hist' = [StepHist(t) EXCEPT !.request = ShellRequest(loc[t].detail)]
    /\ UNCHANGED <<bridge, env, wire, fatal, nOps, sequential, recording, window_properties>>

\* shell->request_move / request_resize during which the shell notifies the
\* observer of a state change before it returns: scene_surface_state_set
\* constructs its lock_guard (line 395) on the mutex this context holds.
\* Locking a std::mutex its owner holds is undefined: the call blocks for
\* ever, or it throws and the lock_guard of move_resize unwinds
RequestMoveResizeCallsBack(t) ==
    /\ pc[t] = "mr_request" /\ ~fatal
    /\ mutex = t
    /\ \E outcome \in {"blocks", "throws"} :
          IF outcome = "blocks"
            THEN /\ mutex' = mutex
                 /\ Goto(t, "sss_lock", loc[t])
            ELSE /\ mutex' = Free
                 /\ Return(t)
    /\ hist' = [StepHist(t) EXCEPT !.request = ShellRequest(loc[t].detail)]
    /\ UNCHANGED <<bridge, env, wire, fatal, nOps, sequential, recording, window_properties>>

\* ----------------------------------------------------------- environment
\* the last owner of a session lets go of it; the bridge can only observe
\* this of the session weak_session refers to
SessionExpire ==
    /\ ~fatal
    /\ \E s \in liveSessions :
          /\ s = weak_session
          /\ \A t \in Threads : loc[t].sess # s
          /\ liveSessions' = liveSessions \ {s}
          /\ hist' = [Disturbed(hist) EXCEPT
                !.deferOK = @ /\ ~(s = weak_session /\ creation_params),
                !.immOK = @ /\ ~(s = weak_session /\ creation_params)]
    /\ UNCHANGED <<bridge, mutex, surfaces, createCount, nAttach, wire, fatal,
                   nOps, sequential, recording, window_properties, pc, loc>>

\* the steps of an operation in progress in context t
Continue(t) ==
    \/ SetWmStateProperty(t)
    \/ SetNetWmStateProperty(t)
    \/ SetWindowStateLocked(t)
    \/ ModifySurface(t)
    \/ SetSurfaceCreate(t)
    \/ CreateSurface(t)
    \/ StoreSceneSurface(t)
    \/ RemoveObserver(t)
    \/ DestroySurface(t)
    \/ CheckObserverDead(t)
    \/ ReadPropertyRequests(t)
    \/ RequestMoveResize(t)
    \/ RequestMoveResizeCallsBack(t)

\* operations that arrive on the X11 event context
X11Operation ==
    \/ Map("x11")
    \/ Unmap("x11")
    \/ NetWmStateClientMessage("x11")
    \/ WmChangeStateClientMessage("x11")
    \/ Close("x11")
    \/ DirtyProperties("x11")
    \/ ReadProperties("x11")
    \/ MoveResize("x11")

\* operations that arrive on the Wayland (compositor) context
WaylandOperation ==
    \/ SetSurface("wl")
    \/ WlSurfaceCommitted("wl")
    \/ SceneSurfaceStateSet("wl")
    \/ SceneSurfaceResized("wl")
    \/ SceneSurfaceCloseRequested("wl")
    \/ SetWorkspace("wl")
    \/ Close("wl")

Next ==
    \/ X11Operation
    \/ WaylandOperation
    \/ \E t \in Threads : Continue(t)
    \/ SessionExpire

Spec == Init /\ [][Next]_vars

\* the same runs, in which each context goes on with the operation it is in
SpecLive == Spec /\ \A t \in Threads : WF_vars(Continue(t))

\* the same bridge driven by one call at a time
InitSeq ==
    /\ window_state \in {s \in WindowState :
            ~s.minimized /\ ~s.maximized /\ ~s.fullscreen}
    /\ cached_mir_window_state \in {"unknown", "restored"}
    /\ weak_scene_surface = Null
    /\ surface_observer = Null
    /\ weak_session = Null
    /\ creation_params = FALSE
    /\ props_dirty = TRUE
    /\ properties = DefaultProperties
    /\ mutex = Free
    /\ liveSessions = Sessions
    /\ surfaces = [id \in SurfaceIds |-> NoSurface]
    /\ createCount = 0
    /\ nAttach = 0
    /\ wm_state_prop = <<>>
    /\ net_wm_state_prop = Absent
    /\ fatal = FALSE
    /\ nOps = 0
    /\ sequential = TRUE
    /\ recording = FALSE
    /\ window_properties = {}
    /\ hist = InitHist(window_state)
    /\ pc  = [t \in Threads |-> "idle"]
    /\ loc = [t \in Threads |-> DefaultLoc]

SpecSeq == InitSeq /\ [][Next]_vars

\* the same bridge, with the arguments of the calls recorded
InitRec ==
    /\ window_state \in {s \in WindowState :
            ~s.minimized /\ ~s.maximized /\ ~s.fullscreen}
    /\ cached_mir_window_state \in {"unknown", "restored"}
    /\ weak_scene_surface = Null
    /\ surface_observer = Null
    /\ weak_session = Null
    /\ creation_params = FALSE
    /\ props_dirty = TRUE
    /\ properties = DefaultProperties
    /\ mutex = Free
    /\ liveSessions = Sessions
    /\ surfaces = [id \in SurfaceIds |-> NoSurface]
    /\ createCount = 0
    /\ nAttach = 0
    /\ wm_state_prop = <<>>
    /\ net_wm_state_prop = Absent
    /\ fatal = FALSE
    /\ nOps = 0
    /\ sequential = FALSE
    /\ recording = TRUE
    /\ window_properties = PropertyAtoms
    /\ hist = InitHist(window_state)
    /\ pc  = [t \in Threads |-> "idle"]
    /\ loc = [t \in Threads |-> DefaultLoc]

SpecRec == InitRec /\ [][Next]_vars

\* the bridge of a window that has properties, driven by one call at a time
InitProps ==
    /\ window_state \in {s \in WindowState :
            ~s.minimized /\ ~s.maximized /\ ~s.fullscreen}
    /\ cached_mir_window_state \in {"unknown", "restored"}
    /\ weak_scene_surface = Null
    /\ surface_observer = Null
    /\ weak_session = Null
    /\ creation_params = FALSE
    /\ props_dirty = TRUE
    /\ properties = DefaultProperties
    /\ mutex = Free
    /\ liveSessions = Sessions
    /\ surfaces = [id \in SurfaceIds |-> NoSurface]
    /\ createCount = 0
    /\ nAttach = 0
    /\ wm_state_prop = <<>>
    /\ net_wm_state_prop = Absent
    /\ fatal = FALSE
    /\ nOps = 0
    /\ sequential = TRUE
    /\ recording = FALSE
    /\ window_properties = PropertyAtoms
    /\ hist = InitHist(window_state)
    /\ pc  = [t \in Threads |-> "idle"]
    /\ loc = [t \in Threads |-> DefaultLoc]

SpecProps == InitProps /\ [][Next]_vars

TypeOK ==
    /\ window_state \in WindowState
    /\ cached_mir_window_state \in MirWindowState
    /\ weak_scene_surface \in SurfaceIds \cup {Null}
    /\ surface_observer \in ObserverIds \cup {Null}
    /\ createCount \in 0..NumSessions
    /\ props_dirty \in BOOLEAN
    /\ properties \in [title : {"", "name", "net name"}, appId : {"", "class"},
                       deleteWindow : BOOLEAN]
    /\ mutex \in Threads \cup {Free}
    /\ sequential \in BOOLEAN
    /\ recording \in BOOLEAN
    /\ window_properties \subseteq PropertyAtoms

\* ================================================================ claims
\* context t has just taken the step at position p
Took(t, p) == pc[t] = p /\ pc'[t] # p

\* some context has just started close()
CloseStarted ==
    /\ nOps' = nOps + 1
    /\ \/ hist'.closesInRow > 0
       \/ \E t \in Threads :
             pc[t] = "idle" /\ pc'[t] \in {"close_remove", "close_destroy",
                                           "close_check"}

\* C1: on one bridge the shell's create_surface is invoked at most once,
\* whatever operations are called and however they interleave.
C1_CreateAtMostOnce == createCount <= 1

\* C2: after a set_surface that saw no committed buffer, create_surface is
\* not called before wl_surface_committed() is; when the windowing surface
\* is the bridge's first and its session is resolved, then once the first
\* commit has returned create_surface has been called exactly once, and
\* further commits do not call it again.
C2_DeferredCreation ==
    /\ (hist.attBuffer = "no" /\ hist.commitsStarted = 0)
            => createCount = hist.createdAtAttach
    /\ (hist.deferOK /\ hist.commitsDone >= 1)
            => createCount = hist.createdAtAttach + 1

C2_Witness ==
    /\ hist.deferOK
    /\ hist.commitsDone = 2
    /\ createCount = hist.createdAtAttach + 1
    /\ weak_scene_surface # Null

\* C3: a close() called right after a close() has returned changes no
\* state and calls neither remove_observer nor destroy_surface: it
\* returns at once.
C3_CloseIdempotent ==
    [][(hist.closesInRow > 0 /\ CloseStarted) =>
            /\ UNCHANGED <<bridge, env, wire, fatal, pc, loc>>
            /\ hist'.closesInRow > 0]_vars

C3_Witness ==
    /\ hist.closesInRow = 2
    /\ \E id \in SurfaceIds : surfaces[id].destroyed

\* C4: when close() asks the shell to destroy a scene surface, the observer
\* has already been removed from that surface.
C4_RemoveBeforeDestroy ==
    [][\A id \in SurfaceIds :
          (surfaces'[id].destroyed /\ ~surfaces[id].destroyed)
              => surfaces[id].observer = Null]_vars

C4_Witness ==
    \E id \in SurfaceIds : surfaces[id].destroyed /\ surfaces[id].observer = Null

\* C5 (as claimed): after any sequence of net_wm_state Add/Remove/Toggle
\* messages the WindowState is the fold of apply_legacy_state_message over
\* the target set of each message.
C5_FoldOverTargetSets ==
    (hist.foldOK /\ pc["x11"] = "idle") => window_state = hist.fold

\* C5 (amended): the WindowState is the fold of apply_legacy_state_message
\* applied once per non-empty atom slot of each message, in slot order.
C5_FoldOverSlots ==
    (hist.foldOK /\ pc["x11"] = "idle") => window_state = hist.foldSlots

C5_Witness ==
    /\ hist.foldOK
    /\ pc["x11"] = "idle"
    /\ nOps >= 2
    /\ window_state.maximized
    /\ window_state.fullscreen

\* C6: for a withdrawn WindowState, whatever its other flags, propagation
\* writes wm_state = Withdrawn and leaves the window without _NET_WM_STATE.
C6_WithdrawnWire ==
    [][\A t \in Threads :
          /\ (Took(t, "sws_wm_state") /\ loc[t].nws.withdrawn)
                => wm_state_prop'[1] = WITHDRAWN
          /\ (Took(t, "sws_net_wm_state") /\ loc[t].nws.withdrawn)
                => (~net_wm_state_prop'.present /\ net_wm_state_prop'.atoms = <<>>)
      ]_vars

C6_Witness ==
    /\ window_state.withdrawn
    /\ window_state.maximized
    /\ window_state.fullscreen
    /\ wm_state_prop = <<WITHDRAWN, 0>>
    /\ ~net_wm_state_prop.present
    /\ \A t \in Threads : pc[t] = "idle"

\* the atom list of section 4.1, written out flag by flag
ClaimedAtoms(s) ==
    LET all  == <<"net_wm_state_hidden", "net_wm_state_maximized_horz",
                  "net_wm_state_maximized_vert", "net_wm_state_fullscreen">>
        flag == <<s.minimized, s.maximized, s.maximized, s.fullscreen>>
        F[i \in 0..4] ==
            IF i = 0 THEN <<>>
            ELSE IF flag[i] THEN Append(F[i - 1], all[i]) ELSE F[i - 1]
    IN  F[4]

\* C7: for a WindowState that is not withdrawn the _NET_WM_STATE list
\* written is, in this order, hidden if minimized, maximized_horz and
\* maximized_vert if maximized, fullscreen if fullscreen.
C7_AtomOrder ==
    [][\A t \in Threads :
          (Took(t, "sws_net_wm_state") /\ ~loc[t].nws.withdrawn)
              => /\ net_wm_state_prop'.present
                 /\ net_wm_state_prop'.atoms = ClaimedAtoms(loc[t].nws)]_vars

C7_Witness ==
    net_wm_state_prop.atoms =
        <<"net_wm_state_hidden", "net_wm_state_maximized_horz",
          "net_wm_state_maximized_vert", "net_wm_state_fullscreen">>

\* C8: the wm_state property written is the two-word record (code, 0) with
\* code 0 (Withdrawn) if withdrawn, else 3 (Iconic) if minimized, else 1
\* (Normal).
C8_WmStateRecord ==
    [][\A t \in Threads :
          Took(t, "sws_wm_state") =>
              wm_state_prop' =
                  << IF loc[t].nws.withdrawn THEN 0
                     ELSE IF loc[t].nws.minimized THEN 3
                     ELSE 1,
                     0 >>]_vars

C8_Witness ==
    /\ wm_state_prop = <<3, 0>>
    /\ window_state.minimized
    /\ ~window_state.withdrawn

\* the attribute of section 4.1, to_compositor_attribute
ClaimedAttribute(s) ==
    IF s.withdrawn THEN "hidden"
    ELSE IF s.minimized THEN "minimized"
    ELSE IF s.fullscreen THEN "fullscreen"
    ELSE IF s.maximized THEN "maximized"
    ELSE "restored"

\* C9: the compositor attribute computed by propagation is hidden if
\* withdrawn, else minimized, else fullscreen, else maximized, else
\* restored, in that priority order.
C9_AttributePriority ==
    [][\A t \in Threads :
          Took(t, "sws_lock") =>
              cached_mir_window_state' = ClaimedAttribute(loc[t].nws)]_vars

\* C10 (as claimed): two scene_surface_state_set(fullscreen) calls in a row
\* on a bridge with a scene surface make exactly one modify_surface call.
C10_OneModify ==
    (hist.sssCalls = 2 /\ pc["wl"] = "idle") => hist.sssMods = 1

\* C10 (amended): such calls make no modify_surface call at all.
C10_NoModify ==
    hist.sssCalls >= 1 => hist.sssMods = 0

C10_Witness ==
    /\ hist.sssCalls = 2
    /\ pc["wl"] = "idle"
    /\ window_state.fullscreen
    /\ cached_mir_window_state = "fullscreen"
    /\ LockSurface(weak_scene_surface) # Null

\* C11: handling scene_surface_state_set(attr) never makes a request of the
\* shell, whatever attr and the state of the bridge: set_window_state called
\* from it does not reach modify_surface.
C11_NeverCallsShell ==
    [][\A t \in Threads :
          Took(t, "sws_modify") => loc[t].op # "scene_surface_state_set"]_vars

\* C12: scene_surface_state_set(attr) called with attr equal to the cached
\* attribute changes no field of the bridge, writes nothing to the
\* connection, asks nothing of the shell and returns at once.
C12_SameAttributeNoOp ==
    [][hist'.last = "sss_same" =>
            UNCHANGED <<bridge, env, wire, fatal, mutex, pc, loc>>]_vars

C12_Witness ==
    /\ hist.last = "sss_same"
    /\ cached_mir_window_state = "fullscreen"
    /\ window_state.fullscreen
    /\ LockSurface(weak_scene_surface) # Null

\* the positions at which an operation calls into the shell, the scene
\* surface or the connection
CollaboratorCalls ==
    {"sws_wm_state", "sws_net_wm_state", "sws_modify", "csn_create",
     "close_remove", "close_destroy", "rp_read", "mr_request"}

\* C13: no operation holds the bridge's mutex at the moment it calls a
\* collaborator (shell, connection, scene surface): the mutex is released
\* first.
C13_NoCallUnderMutex ==
    \A t \in Threads : pc[t] \in CollaboratorCalls => mutex # t

\* C14: once set_surface has succeeded on a bridge, no later set_surface
\* succeeds on it, not even after close() and after the session has gone:
\* a bridge never gets a second observer.
C14_SecondAttachFails == nAttach <= 1

\* C15: set_surface does not complete normally when no session is resolved
\* from the windowing surface: the bridge is never left with an observer
\* and creation parameters but without a session.
C15_AttachNeedsSession ==
    (surface_observer # Null /\ creation_params) => weak_session # Null

\* C16: on a bridge with a scene surface and an all-false WindowState, a
\* _NET_WM_STATE Add fullscreen message makes the shell receive
\* modify_surface with attribute fullscreen and leaves wm_state = Normal
\* and _NET_WM_STATE = [fullscreen] on the window; the close() that follows
\* removes the observer and then destroys the surface, without reaching
\* fatal_error; a close() after that changes nothing and returns at once.
C16_EndToEnd ==
    [][/\ (hist.e2e = 1 /\ hist'.e2e = 2) =>
              /\ hist'.e2eModify = "fullscreen"
              /\ wm_state_prop' = <<NORMAL, 0>>
              /\ net_wm_state_prop' =
                    [present |-> TRUE, atoms |-> <<"net_wm_state_fullscreen">>]
       /\ (hist.e2e = 2 /\ CloseStarted) => hist'.e2e = 3
       /\ (hist.e2e = 3 /\ hist'.e2e = 4) =>
              /\ hist'.e2eClose = "removed, destroyed"
              /\ ~fatal'
       /\ (hist.e2e = 4 /\ CloseStarted) =>
              /\ hist'.e2e = 5
              /\ UNCHANGED <<bridge, env, wire, fatal, mutex, pc, loc>>
      ]_vars

C16_Witness ==
    /\ hist.e2e = 5
    /\ hist.e2eModify = "fullscreen"
    /\ hist.e2eClose = "removed, destroyed"
    /\ window_state.fullscreen
    /\ \E id \in SurfaceIds : surfaces[id].destroyed /\ surfaces[id].state = "fullscreen"

\* the wire state of section 4.1, to_legacy_wire_state, as the two
\* properties of the window
ClaimedWire(s) ==
    << << IF s.withdrawn THEN 0 ELSE IF s.minimized THEN 3 ELSE 1, 0 >>,
       [present |-> ~s.withdrawn,
        atoms |-> IF s.withdrawn THEN <<>> ELSE ClaimedAtoms(s)] >>

\* C17 (as claimed): unmap() sets withdrawn and map() clears it, leaving
\* the other three flags as they were, and unmap() followed at once by
\* map() restores exactly the WindowState and the wire state that held
\* before the unmap.
C17_RoundTripRestoresAll ==
    [][/\ (hist.um = 1 /\ hist'.um = 2) =>
              window_state' = [hist.umBefore EXCEPT !.withdrawn = TRUE]
       /\ (hist.um = 3 /\ hist'.um = 4) =>
              /\ window_state' = hist.umBefore
              /\ <<wm_state_prop', net_wm_state_prop'>> = hist.umWire
      ]_vars

\* C17 (amended): unmap() followed at once by map() leaves the WindowState
\* that held before the unmap with withdrawn cleared, which is that
\* WindowState itself when the window was not withdrawn, and leaves on the
\* window the wire state of the resulting WindowState.
C17_RoundTripRestoresFlags ==
    [][/\ (hist.um = 1 /\ hist'.um = 2) =>
              window_state' = [hist.umBefore EXCEPT !.withdrawn = TRUE]
       /\ (hist.um = 3 /\ hist'.um = 4) =>
              /\ window_state' = [hist.umBefore EXCEPT !.withdrawn = FALSE]
              /\ ~hist.umBefore.withdrawn => window_state' = hist.umBefore
              /\ <<wm_state_prop', net_wm_state_prop'>> = ClaimedWire(window_state')
              /\ (/\ ~hist.umBefore.withdrawn
                  /\ hist.umWire = ClaimedWire(hist.umBefore))
                    => <<wm_state_prop', net_wm_state_prop'>> = hist.umWire
      ]_vars

C17_Witness ==
    /\ hist.um = 4
    /\ window_state = hist.umBefore
    /\ window_state.minimized
    /\ window_state.fullscreen
    /\ <<wm_state_prop, net_wm_state_prop>> = hist.umWire

\* a local shared_ptr of a context other than t holds observer o
HeldByAnotherCall(o, t) ==
    \E u \in Threads \ {t} : loc[u].obs = o \/ loc[u].attachObs = o

\* C18: close() reaches fatal_error exactly when something still holds the
\* observer after close() has let go of it, and never when the bridge and
\* the observer registry of the scene surface are its only holders.
C18_FatalOnlyIfHeldElsewhere ==
    [][\A t \in Threads :
          Took(t, "close_check") =>
              /\ fatal' <=> ObserverHeldElsewhere(loc[t].obs, t)
              /\ ~HeldByAnotherCall(loc[t].obs, t) => ~fatal'
      ]_vars

\* C19: read_properties() issues its reads only when props_dirty is set,
\* and clears the flag when it does; over any run the calls that issue
\* reads are at most one more than the dirty_properties() calls; a call
\* that finds the flag clear changes nothing.
C19_ReadsOnlyWhenDirty ==
    [][/\ hist'.reads <= 1 + hist'.dirties
       /\ \A t \in Threads :
             /\ (pc[t] = "idle" /\ pc'[t] = "rp_read") =>
                    (props_dirty /\ ~props_dirty')
             /\ Took(t, "rp_read") => ~props_dirty
       /\ hist'.reads # hist.reads => \E t \in Threads : Took(t, "rp_read")
       /\ hist'.last = "rp_clean" =>
             /\ hist'.reads = hist.reads
             /\ UNCHANGED <<bridge, env, wire, fatal, mutex, pc, loc>>
      ]_vars

C19_Witness ==
    /\ hist.reads = 2
    /\ hist.dirties = 1
    /\ ~props_dirty
    /\ \A t \in Threads : pc[t] = "idle"

\* the request section 4.3 gives for a detail: a move for the move
\* sentinel, a resize with the compass edge for a resize sentinel
ClaimedRequest(detail) ==
    LET vertical   == IF detail \in {"_NET_WM_MOVERESIZE_SIZE_TOP",
                                     "_NET_WM_MOVERESIZE_SIZE_TOPLEFT",
                                     "_NET_WM_MOVERESIZE_SIZE_TOPRIGHT"}
                        THEN "north"
                      ELSE IF detail \in {"_NET_WM_MOVERESIZE_SIZE_BOTTOM",
                                          "_NET_WM_MOVERESIZE_SIZE_BOTTOMLEFT",
                                          "_NET_WM_MOVERESIZE_SIZE_BOTTOMRIGHT"}
                        THEN "south"
                      ELSE ""
        horizontal == IF detail \in {"_NET_WM_MOVERESIZE_SIZE_LEFT",
                                     "_NET_WM_MOVERESIZE_SIZE_TOPLEFT",
                                     "_NET_WM_MOVERESIZE_SIZE_BOTTOMLEFT"}
                        THEN "west"
                      ELSE IF detail \in {"_NET_WM_MOVERESIZE_SIZE_RIGHT",
                                          "_NET_WM_MOVERESIZE_SIZE_TOPRIGHT",
                                          "_NET_WM_MOVERESIZE_SIZE_BOTTOMRIGHT"}
                        THEN "east"
                      ELSE ""
    IN  IF detail = "_NET_WM_MOVERESIZE_MOVE" THEN "request_move"
        ELSE IF detail \in ResizeDetails
          THEN "mir_resize_edge_" \o vertical \o horizontal
        ELSE "none"

\* what holds of move_resize(detail) whether or not a scene surface exists:
\* the request made is the one for the detail, making it changes no state
\* of the bridge, and a detail that is no sentinel leads to no request, no
\* error and no change
MoveResizeForwards ==
    /\ \A t \in Threads :
          Took(t, "mr_request") =>
              /\ hist'.request = ClaimedRequest(loc[t].detail)
              /\ hist'.request # "none"
              /\ UNCHANGED <<bridge, env, wire, fatal>>
    /\ hist'.request # "none" => \E t \in Threads : Took(t, "mr_request")
    /\ hist'.last = "mr_unknown" =>
          /\ hist'.request = "none"
          /\ UNCHANGED <<bridge, env, wire, fatal, mutex, pc, loc>>

\* C20 (as claimed): move_resize(detail) forwards a move request for the
\* move sentinel and a resize request with the compass edge for each of
\* the eight resize sentinels; for any other detail it calls nothing,
\* raises no error and changes nothing.
C20_ForwardsEverySentinel ==
    [][/\ MoveResizeForwards
       /\ hist'.last # "mr_nosurface"]_vars

\* C20 (amended): it forwards them when the bridge has a live scene
\* surface; without one a sentinel, too, leads to no request, no error and
\* no change.
C20_ForwardsWithSceneSurface ==
    [][/\ MoveResizeForwards
       /\ \A t \in Threads :
             (pc[t] = "idle" /\ pc'[t] = "mr_request") =>
                 /\ LockSurface(weak_scene_surface) # Null
                 /\ loc'[t].detail \in {MOVE} \cup ResizeDetails
       /\ hist'.last = "mr_nosurface" =>
             /\ LockSurface(weak_scene_surface) = Null
             /\ hist'.request = "none"
             /\ UNCHANGED <<bridge, env, wire, fatal, mutex, pc, loc>>
      ]_vars

C20_Witness ==
    /\ hist.request = "mir_resize_edge_southwest"
    /\ LockSurface(weak_scene_surface) # Null
    /\ pc["x11"] = "idle"

\* ------------------------------------------------------------------- C21
\* the flag an atom of a _NET_WM_STATE message names, for the three atoms
\* the bridge recognizes
RecognizedFlag(atom) ==
    CASE atom = "net_wm_state_hidden"         -> "minimized"
      [] atom = "net_wm_state_maximized_horz" -> "maximized"
      [] atom = "net_wm_state_fullscreen"     -> "fullscreen"
      [] OTHER                                -> "none"

\* C21: a net_wm_state message raises no error whatever its atoms are, and
\* the WindowState it hands to set_window_state differs from the current
\* one in no flag that none of its atoms names through a recognized atom
\* (an unrecognized atom and a zero second slot name none); a message with
\* no recognized atom hands on the current WindowState unchanged, whatever
\* its action is.
C21_UnrecognizedAtomsIgnored ==
    [][hist'.arg.op = "net_wm_state" =>
          LET named == {RecognizedFlag(hist'.arg.p1),
                        RecognizedFlag(hist'.arg.p2)} \ {"none"}
              new_window_state == loc'["x11"].nws
          IN  /\ ~fatal'
              /\ pc'["x11"] = "sws_wm_state"
              /\ \A f \in DOMAIN window_state \ named :
                    new_window_state[f] = window_state[f]
              /\ named = {} => new_window_state = window_state]_vars

\* a Toggle message naming only an unrecognized atom has just been handled
\* on a bridge whose maximized flag is set
C21_Witness ==
    /\ hist.arg.op = "net_wm_state"
    /\ hist.arg.action = TOGGLE
    /\ hist.arg.p1 \in {"net_wm_state_maximized_vert", "other"}
    /\ hist.arg.p2 = XCB_ATOM_NONE
    /\ window_state.maximized
    /\ loc["x11"].nws = window_state
    /\ ~fatal

\* ------------------------------------------------------------------- C22
\* C22: the critical section of a propagation leads to modify_surface
\* exactly when the attribute computed for the new WindowState differs from
\* the cached one and a scene surface exists; when it differs the cached
\* attribute becomes the computed one, with or without a scene surface;
\* when it is equal the cached attribute stays and the propagation returns
\* without a request to the shell.
C22_PushExactlyOnChange ==
    [][\A t \in Threads :
          Took(t, "sws_lock") =>
              LET mir_window_state == MirWindowStateOf(loc[t].nws)
                  differs == mir_window_state # cached_mir_window_state
                  exists  == LockSurface(weak_scene_surface) # Null
              IN  /\ pc'[t] = "sws_modify" <=> (differs /\ exists)
                  /\ pc'[t] # "sws_modify" => pc'[t] = "idle"
                  /\ differs => cached_mir_window_state' = mir_window_state
                  /\ ~differs => UNCHANGED cached_mir_window_state
                  /\ UNCHANGED surfaces]_vars

\* a propagation has cached the fullscreen attribute on a bridge that
\* never had a scene surface
C22_Witness ==
    /\ cached_mir_window_state = "fullscreen"
    /\ window_state.fullscreen
    /\ createCount = 0
    /\ \A t \in Threads : pc[t] = "idle"

\* ------------------------------------------------------------------- C23
\* C23: when calls do not overlap, at the moment a propagation calls
\* modify_surface the WM_STATE and _NET_WM_STATE properties of the window
\* already hold what that propagation writes for its new WindowState: the
\* two writes come before the request to the shell.
C23_WireBeforeModify ==
    [][\A t \in Threads :
          Took(t, "sws_modify") =>
              <<wm_state_prop, net_wm_state_prop>> = ClaimedWire(loc[t].nws)]_vars

\* a propagation of a fullscreen WindowState is about to call
\* modify_surface on a surface the shell still has as restored, and the
\* window's properties already show fullscreen
C23_Witness ==
    \E t \in Threads :
        /\ pc[t] = "sws_modify"
        /\ loc[t].nws.fullscreen
        /\ ~loc[t].nws.minimized
        /\ surfaces[loc[t].surf].state = "restored"
        /\ wm_state_prop = <<NORMAL, XCB_WINDOW_NONE>>
        /\ net_wm_state_prop.present
        /\ net_wm_state_prop.atoms = <<"net_wm_state_fullscreen">>

\* ------------------------------------------------------------------- C24
\* the WindowState the claim gives for attribute a arriving at WindowState s
ClaimedFromAttribute(s, a) ==
    CASE a \in {"minimized", "hidden"} ->
            [withdrawn |-> s.withdrawn, minimized |-> TRUE,
             maximized |-> s.maximized, fullscreen |-> s.fullscreen]
      [] a = "fullscreen" ->
            [withdrawn |-> s.withdrawn, minimized |-> FALSE,
             maximized |-> s.maximized, fullscreen |-> TRUE]
      [] a \in {"maximized", "vertmaximized", "horizmaximized"} ->
            [withdrawn |-> s.withdrawn, minimized |-> FALSE,
             maximized |-> TRUE, fullscreen |-> FALSE]
      [] a \in {"restored", "unknown", "attached"} ->
            [withdrawn |-> s.withdrawn, minimized |-> FALSE,
             maximized |-> FALSE, fullscreen |-> FALSE]

\* the Wayland context has just started a scene_surface_state_set() that
\* goes on to propagate
StateSetStarted ==
    /\ pc["wl"] = "idle"
    /\ pc'["wl"] = "sws_wm_state"
    /\ loc'["wl"].op = "scene_surface_state_set"

\* C24: a scene_surface_state_set(a) that differs from the cached
\* attribute hands to set_window_state the current WindowState changed as
\* follows: minimized or hidden sets minimized; fullscreen clears minimized
\* and sets fullscreen; maximized, vertmaximized or horizmaximized clears
\* minimized, sets maximized and clears fullscreen; restored, unknown or
\* attached clears all three; the flags not mentioned stay, and withdrawn
\* stays for every attribute.
C24_AttributeMapping ==
    [][StateSetStarted =>
          LET a == cached_mir_window_state'
              new_window_state == loc'["wl"].nws
          IN  /\ a # "mir_window_states" =>
                    new_window_state = ClaimedFromAttribute(window_state, a)
              /\ new_window_state.withdrawn = window_state.withdrawn]_vars

\* scene_surface_state_set(horizmaximized) has arrived at a fullscreen
\* window that was not maximized
C24_Witness ==
    /\ pc["wl"] = "sws_wm_state"
    /\ loc["wl"].op = "scene_surface_state_set"
    /\ cached_mir_window_state = "horizmaximized"
    /\ window_state.fullscreen
    /\ ~window_state.maximized
    /\ loc["wl"].nws.maximized
    /\ ~loc["wl"].nws.fullscreen

\* ------------------------------------------------------------------- C25
\* C25: a wm_change_state message hands to set_window_state the current
\* WindowState with minimized cleared when it requests Normal (1), with
\* minimized set when it requests Iconic (3), and unchanged for any other
\* value; withdrawn, maximized and fullscreen are as they were in each case.
C25_ChangeStateMapping ==
    [][hist'.arg.op = "wm_change_state" =>
          LET requested == hist'.arg.requested
              new_window_state == loc'["x11"].nws
          IN  /\ pc'["x11"] = "sws_wm_state"
              /\ new_window_state.minimized =
                    (IF requested = 1 THEN FALSE
                     ELSE IF requested = 3 THEN TRUE
                     ELSE window_state.minimized)
              /\ new_window_state.withdrawn = window_state.withdrawn
              /\ new_window_state.maximized = window_state.maximized
              /\ new_window_state.fullscreen = window_state.fullscreen]_vars

\* a wm_change_state message that requests neither Normal nor Iconic has
\* just been handled on a minimized window
C25_Witness ==
    /\ hist.arg.op = "wm_change_state"
    /\ hist.arg.requested \notin {NORMAL, ICONIC}
    /\ window_state.minimized
    /\ loc["x11"].nws = window_state

\* ------------------------------------------------------------------- C26
\* C26: once the first set_surface() of a bridge, given a surface with a
\* committed buffer whose session resolves, has returned with no close()
\* and no loss of the session meanwhile, the shell has been asked for
\* exactly one scene surface and the bridge refers to it; this stays so
\* through every wl_surface_committed() that follows until close().
C26_CreatedDuringAttach ==
    (hist.immOK /\ loc["wl"].op # "set_surface") =>
        /\ createCount = hist.createdAtAttach + 1
        /\ weak_scene_surface = createCount

\* such a set_surface() has returned and a wl_surface_committed() after it
\* has returned too
C26_Witness ==
    /\ hist.immOK
    /\ hist.attBuffer = "yes"
    /\ hist.commitsDone >= 1
    /\ createCount = 1
    /\ weak_scene_surface = 1
    /\ \A t \in Threads : pc[t] = "idle"

\* ------------------------------------------------------------------- C27
\* context t has just run the gate of create_scene_surface_if_needed(),
\* called from set_surface() or as wl_surface_committed()
GateRun(t) ==
    \/ Took(t, "csn_lock")
    \/ /\ pc[t] = "idle"
       /\ \/ pc'[t] = "csn_create"
          \/ (t = "wl" /\ hist'.last = "commit_noop")

\* C27: create_scene_surface_if_needed() goes on to call the shell's
\* create_surface only when the session resolves, unconsumed creation
\* parameters are present and the bridge refers to no scene surface; a call
\* that does not go on returns having changed nothing of the bridge, of the
\* shell or of the window's properties.
C27_GateOrNoOp ==
    [][\A t \in Threads :
          GateRun(t) =>
              IF pc'[t] = "csn_create"
                THEN /\ LockSession(weak_session) # Null
                     /\ creation_params
                     /\ LockSurface(weak_scene_surface) = Null
                ELSE /\ pc'[t] = "idle"
                     /\ UNCHANGED <<bridge, env, wire, fatal>>]_vars

\* the second wl_surface_committed() on a bridge that already has its scene
\* surface has just returned from the gate
C27_Witness ==
    /\ hist.last = "commit_noop"
    /\ hist.commitsDone = 2
    /\ createCount = 1
    /\ LockSurface(weak_scene_surface) = 1

\* ------------------------------------------------------------------- C28
\* the creation parameters the claim gives for cached properties p
ClaimedParams(p) ==
    [type |-> "mir_window_type_freestyle",
     server_side_decorated |-> TRUE,
     size |-> "init.size",
     name |-> CASE p.title = "" -> "unset" [] OTHER -> p.title,
     application_id |-> CASE p.appId = "" -> "unset" [] OTHER -> p.appId]

\* C28: the parameters built when the gate is passed, which are those the
\* shell's create_surface then receives, have type freestyle, server-side
\* decoration on and the size of the create notify event; their name is the
\* cached title when that is not empty and their application id the cached
\* appId when that is not empty, and each is left as set_surface made it
\* otherwise; after create_surface has returned the bridge refers to the
\* scene surface it returned.
C28_CreationParameters ==
    [][\A t \in Threads :
          /\ (pc[t] # "csn_create" /\ pc'[t] = "csn_create") =>
                loc'[t].params = ClaimedParams(properties)
          /\ Took(t, "csn_create") =>
                /\ hist'.created = loc[t].params
                /\ hist'.created.type = "mir_window_type_freestyle"
                /\ createCount' = createCount + 1
          /\ Took(t, "csn_store") =>
                /\ loc[t].surf = createCount
                /\ weak_scene_surface' = loc[t].surf]_vars

\* the shell has just been asked for a surface on a bridge that has cached
\* a title and no application id
C28_Witness ==
    /\ hist.created.type = "mir_window_type_freestyle"
    /\ hist.created.name = "name"
    /\ hist.created.application_id = "unset"
    /\ properties.title = "name"
    /\ properties.appId = ""

\* ------------------------------------------------------------------- C29
\* C29 (as claimed): the members of properties are assigned only by a
\* context that holds the mutex, and whenever the mutex is free (so that a
\* reader can take it) every member that a refresh has assigned holds what
\* the latest completed refresh assigned: no member is left over from an
\* older refresh next to members of a newer one.
C29_WholeRefreshUnderLock ==
    /\ [][hist'.wrote # hist.wrote => mutex \in Threads]_vars
    /\ [](mutex = Free =>
            \A member \in {"title", "appId"} :
                hist.wrote[member] \in {0, hist.wrote.deleteWindow})

\* ------------------------------------------------------------------- C30
\* C30: scene_surface_resized(new_size) gives xcb_configure_window the new
\* width and the new height, in this order, and changes nothing of the
\* bridge (WindowState, cached attribute, properties, dirty flag, creation
\* parameters, references), nothing of the window's state properties, and
\* makes no request to the shell.
C30_ResizeOnlyConfigures ==
    [][hist'.arg.op = "scene_surface_resized" =>
          /\ hist'.configure = <<hist'.arg.new_size.width,
                                 hist'.arg.new_size.height>>
          /\ UNCHANGED <<bridge, env, wire, fatal, mutex>>
          /\ hist'.request = "none"
          /\ hist'.created = NoParams]_vars

\* scene_surface_resized(800x480) has just run on a bridge with a scene
\* surface
C30_Witness ==
    /\ hist.arg.op = "scene_surface_resized"
    /\ hist.configure = <<800, 480>>
    /\ LockSurface(weak_scene_surface) # Null

\* C31: scene_surface_close_requested() only forwards a destroy request to
\* the legacy connection: the bridge is not closed, the scene-surface
\* reference and the observer handle stay held, no remove_observer or
\* destroy_surface call is made, and the two are let go only by a close().
C31_CloseRequestOnlyForwards ==
    [][/\ hist'.last = "scene_surface_close_requested" =>
              /\ hist'.sent = [req |-> "destroy_window"]
              /\ UNCHANGED <<bridge, env, wire, fatal, mutex, pc, loc>>
       /\ (\/ weak_scene_surface # Null /\ weak_scene_surface' = Null
           \/ surface_observer # Null /\ surface_observer' = Null)
              => CloseStarted
      ]_vars

C31_Witness ==
    /\ hist.last = "scene_surface_close_requested"
    /\ LockSurface(weak_scene_surface) # Null
    /\ surface_observer # Null

\* C35: set_workspace(workspace) sets the window's net_wm_desktop property
\* to the given value when workspace is zero or greater and deletes that
\* property when workspace is negative; in both cases no bridge state
\* changes and the shell is not called.
C35_SetWorkspace ==
    [][hist'.arg.op = "set_workspace" =>
          /\ hist'.arg.workspace >= 0 =>
                hist'.sent = [req |-> "set_property",
                              property |-> "net_wm_desktop",
                              value |-> hist'.arg.workspace]
          /\ hist'.arg.workspace < 0 =>
                hist'.sent = [req |-> "delete_property",
                              property |-> "net_wm_desktop"]
          /\ hist'.request = "none"
          /\ hist'.created = NoParams
          /\ UNCHANGED <<bridge, env, wire, fatal, mutex, pc, loc>>
      ]_vars

C35_Witness ==
    /\ hist.arg.op = "set_workspace"
    /\ hist.arg.workspace < 0
    /\ hist.sent.req = "delete_property"

\* C34: close() takes the scene-surface reference and the observer handle
\* and clears both in one critical section: no step leaves the bridge with
\* only one of the two it held, and at the end of the critical section
\* scene_surface() reports no surface.
C34_CloseClearsBothAtOnce ==
    [][/\ CloseStarted =>
              /\ weak_scene_surface' = Null
              /\ surface_observer' = Null
              /\ SceneSurface' = Null
              /\ \A t \in Threads :
                    pc[t] = "idle" /\ pc'[t] # "idle" =>
                        /\ loc'[t].surf = SceneSurface
                        /\ loc'[t].obs = surface_observer
       /\ (weak_scene_surface # Null /\ surface_observer # Null) =>
              (weak_scene_surface' = Null <=> surface_observer' = Null)
      ]_vars

C34_Witness ==
    \E t \in Threads :
        /\ pc[t] = "close_remove"
        /\ loc[t].surf # Null
        /\ loc[t].obs # Null
        /\ weak_scene_surface = Null
        /\ surface_observer = Null
        /\ SceneSurface = Null

\* on a bridge attached once the observer handle has been cleared, which
\* only close() does, and no close() is in progress: close() has returned
CloseReturned ==
    /\ nAttach = 1
    /\ surface_observer = Null
    /\ ~fatal
    /\ \A t \in Threads : loc[t].op # "close"

\* C36: once close() has returned the bridge holds no scene-surface
\* reference and never acquires one again, and no create_surface call is
\* made afterwards, also when close() runs concurrently with a creation in
\* flight; in that interleaving close() does not reach its fatal-error
\* outcome and no created scene surface is left undestroyed with the
\* observer still registered.
C36_ClosedStaysClosed ==
    /\ [][CloseReturned => \A t \in Threads : ~Took(t, "csn_create")]_vars
    /\ []((nAttach <= 1 /\ \A t \in Threads : loc[t].op # "set_surface") =>
            /\ ~fatal
            /\ CloseReturned =>
                  /\ weak_scene_surface = Null
                  /\ ~ObserverRegistered)

\* C38: whenever no operation is in progress, the wm_state and
\* _NET_WM_STATE properties last written to the legacy connection are the
\* wire mapping of the bridge's current WindowState, also after concurrent
\* state-changing operations from the two execution contexts.
C38_WireMatchesStateWhenIdle ==
    (/\ \A t \in Threads : pc[t] = "idle"
     /\ ~fatal
     /\ wm_state_prop # <<>>) =>
        /\ wm_state_prop = WmStateProperties(window_state)
        /\ net_wm_state_prop = NetWmStates(window_state)

\* C37: state-changing operations are atomic with respect to each other:
\* when a map() or unmap() and a scene_surface_state_set have run
\* concurrently on the two execution contexts, the final WindowState is the
\* result of running them one after the other in some order.
C37_Serializable ==
    (/\ hist.serial # {}
     /\ \A t \in Threads : pc[t] = "idle"
     /\ ~fatal) =>
        window_state \in hist.serial

\* C32: no bridge operation deadlocks on the bridge mutex, even when a
\* collaborator called by an operation synchronously calls back into the
\* bridge through the observer: every started operation eventually
\* finishes, and a mutex that is held is eventually released.
C32_EveryOperationFinishes ==
    /\ \A t \in Threads : (pc[t] # "idle") ~> (pc[t] = "idle" \/ fatal)
    /\ (mutex # Free) ~> (mutex = Free \/ fatal)

\* C39: a state change requested before the scene surface exists is not
\* lost to the compositor: after a state message of the client that was
\* handled between the attach and the creation, once the scene surface has
\* been created the shell is eventually told the attribute, so that the
\* scene surface's state is the compositor mapping of the WindowState.
C39_EarlyStateReachesShell ==
    (hist.early /\ SceneSurface # Null)
        ~> \/ ~hist.early
           \/ fatal
           \/ SceneSurface = Null
           \/ surfaces[SceneSurface].state = MirWindowStateOf(window_state)

====
